---- MODULE Spec2Model ----
(***************************************************************************)
(* A model of the hikotq/nostr relay: the wire codec (message.rs, req.rs, *)
(* event.rs), the filter match predicate and the relay engine (server.rs). *)
(***************************************************************************)
EXTENDS Integers, Sequences, FiniteSets, TLC

\* ------------------------------------------------------------------ bounds
MaxSubs == 2
MaxQueue == 2

\* Connections are named by their remote address `who`; who.to_string() is
\* the Registry key and is injective, so the address itself is the key.
\* Two peers.
Conns == {"A", "B"}

\* ------------------------------------------------------------- Option<T>
\* An Option is the set of its contents: None is empty, Some(x) is {x}, so
\* Option::iter() is the set itself and map_or(d, f) is a test on its element.
None == {}
Some(x) == {x}

\* --------------------------------------------------------------- EventKind
EventKinds == {"MetaData", "TextNote"}

u16_from_kind(kind) == IF kind = "MetaData" THEN 0 ELSE 1

\* From<u16> for EventKind: "panic" stands for panic!("unknown event kind").
kind_from_u16(n) ==
    CASE n = 0 -> "MetaData"
      [] n = 1 -> "TextNote"
      [] OTHER -> "panic"

U16Max == 65535

\* ------------------------------------------------------------ JSON values
\* The text of a frame is modelled by the JSON value it parses to; text that
\* is not JSON at all is JGarbage.
JStr(s) == [j |-> "str", s |-> s]
JNum(n) == [j |-> "num", n |-> n]
JBool(b) == [j |-> "bool", b |-> b]
JArr(a) == [j |-> "arr", a |-> a]
JObj(o) == [j |-> "obj", o |-> o]
JNull == [j |-> "null"]
JGarbage == [j |-> "garbage"]

IsStr(v) == v.j = "str"
IsInt(v) == v.j = "num"
IsNat(v) == IsInt(v) /\ v.n >= 0
IsStrArr(v) == v.j = "arr" /\ \A i \in 1..Len(v.a) : IsStr(v.a[i])
IsNatArr(v) == v.j = "arr" /\ \A i \in 1..Len(v.a) : IsNat(v.a[i])
IsStrArrArr(v) == v.j = "arr" /\ \A i \in 1..Len(v.a) : IsStrArr(v.a[i])

\* ------------------------------------------------------------------ Event
EventKeys == <<"id", "pubkey", "created_at", "kind", "tags", "content", "sig">>

\* derive(Serialize) for Event, with EventKind written as its u16.
EncodeEvent(e) ==
    JObj([id |-> JStr(e.id),
          pubkey |-> JStr(e.pubkey),
          created_at |-> JNum(e.created_at),
          kind |-> JNum(u16_from_kind(e.kind)),
          tags |-> JArr([i \in 1..Len(e.tags) |->
                          JArr([k \in 1..Len(e.tags[i]) |-> JStr(e.tags[i][k])])]),
          content |-> JStr(e.content),
          sig |-> JStr(e.sig)])

\* The type check serde makes on the value of one key of an Event object.
EventFieldOk(key, v) ==
    CASE key = "created_at" -> IsInt(v)
      [] key = "kind" -> IsInt(v) /\ v.n >= 0 /\ v.n <= U16Max
      [] key = "tags" -> IsStrArrArr(v)
      [] OTHER -> IsStr(v)

\* derive(Deserialize) for Event on an object whose keys come in the order
\* the encoder writes them: the keys are visited in that order, a value of the
\* wrong type is an error at its key, a kind outside {0, 1} panics at "kind",
\* and a missing key is an error found only after the last key.
\* The result is [r |-> "ok", v |-> event], [r |-> "err"] or [r |-> "panic"].
DecodeEvent(v) ==
    IF v.j # "obj" THEN [r |-> "err"]
    ELSE LET o == v.o
             Has(k) == k \in DOMAIN o
             Bad(k) == Has(k) /\ ~EventFieldOk(k, o[k])
             Panics == Has("kind") /\ EventFieldOk("kind", o["kind"])
                         /\ kind_from_u16(o["kind"].n) = "panic"
         IN  IF Bad("id") \/ Bad("pubkey") \/ Bad("created_at") \/ Bad("kind")
               THEN [r |-> "err"]
             ELSE IF Panics THEN [r |-> "panic"]
             ELSE IF Bad("tags") \/ Bad("content") \/ Bad("sig") THEN [r |-> "err"]
             ELSE IF \E i \in 1..Len(EventKeys) : ~Has(EventKeys[i]) THEN [r |-> "err"]
             ELSE [r |-> "ok",
                   v |-> [id |-> o["id"].s,
                          pubkey |-> o["pubkey"].s,
                          created_at |-> o["created_at"].n,
                          kind |-> kind_from_u16(o["kind"].n),
                          tags |-> [i \in 1..Len(o["tags"].a) |->
                                     [k \in 1..Len(o["tags"].a[i].a) |->
                                        o["tags"].a[i].a[k].s]],
                          content |-> o["content"].s,
                          sig |-> o["sig"].s]]

\* ----------------------------------------------------------------- Filter
\* Filter::new(): every field unset.
Filter_new ==
    [ids |-> None, authors |-> None, kinds |-> None, e_tags |-> None,
     p_tags |-> None, since |-> None, until |-> None, limit |-> None]

\* The wire key of each field, in declaration order (#e and #p are renamed).
FilterKeys == <<"ids", "authors", "kinds", "#e", "#p", "since", "until", "limit">>

FilterField(f, key) ==
    CASE key = "ids" -> f.ids
      [] key = "authors" -> f.authors
      [] key = "kinds" -> f.kinds
      [] key = "#e" -> f.e_tags
      [] key = "#p" -> f.p_tags
      [] key = "since" -> f.since
      [] key = "until" -> f.until
      [] OTHER -> f.limit

JStrArr(seq) == JArr([i \in 1..Len(seq) |-> JStr(seq[i])])
JNumArr(seq) == JArr([i \in 1..Len(seq) |-> JNum(seq[i])])

\* The keys derive(Serialize) writes for a Filter, in the order it writes
\* them: the fields in declaration order, a field that is None skipped.
FilterKeysEmitted(f) == SelectSeq(FilterKeys, LAMBDA key : FilterField(f, key) # None)

\* EncodeFilter without skip_serializing_if: every key is written, null for a
\* field that is None.
EncodeFilter_Nulls(f) ==
    LET val(key) == CHOOSE x \in FilterField(f, key) : TRUE
    IN  JObj([key \in {FilterKeys[i] : i \in 1..Len(FilterKeys)} |->
               IF FilterField(f, key) = None THEN JNull
               ELSE CASE key \in {"ids", "authors", "#e", "#p"} -> JStrArr(val(key))
                      [] key = "kinds" -> JNumArr(val(key))
                      [] OTHER -> JNum(val(key))])

\* derive(Serialize) for Filter with skip_serializing_if = "Option::is_none":
\* an object that has exactly the keys of the fields that are set.
EncodeFilter(f) ==
    LET keys == {FilterKeys[i] : i \in {n \in 1..Len(FilterKeys) :
                                          FilterField(f, FilterKeys[n]) # None}}
        val(key) == CHOOSE x \in FilterField(f, key) : TRUE
    IN  JObj([key \in keys |->
               CASE key \in {"ids", "authors", "#e", "#p"} -> JStrArr(val(key))
                 [] key = "kinds" -> JNumArr(val(key))
                 [] OTHER -> JNum(val(key))])

FilterFieldOk(key, v) ==
    \/ v.j = "null"
    \/ CASE key \in {"ids", "authors", "#e", "#p"} -> IsStrArr(v)
         [] key = "kinds" -> IsNatArr(v)
         [] key = "limit" -> IsNat(v)
         [] OTHER -> IsInt(v)

\* derive(Deserialize) for Filter: every key is optional (a missing key or a
\* null is None), a key of the wrong type is an error, other keys are ignored.
DecodeFilter(v) ==
    IF v.j # "obj" THEN [r |-> "err"]
    ELSE LET o == v.o
             Has(k) == k \in DOMAIN o
             Strs(x) == [i \in 1..Len(x.a) |-> x.a[i].s]
             Nums(x) == [i \in 1..Len(x.a) |-> x.a[i].n]
             Opt(k, conv(_)) ==
                 IF Has(k) /\ o[k].j # "null" THEN Some(conv(o[k])) ELSE None
         IN  IF \E i \in 1..Len(FilterKeys) :
                    Has(FilterKeys[i]) /\ ~FilterFieldOk(FilterKeys[i], o[FilterKeys[i]])
               THEN [r |-> "err"]
             ELSE [r |-> "ok",
                   v |-> [ids |-> Opt("ids", Strs),
                          authors |-> Opt("authors", Strs),
                          kinds |-> Opt("kinds", Nums),
                          e_tags |-> Opt("#e", Strs),
                          p_tags |-> Opt("#p", Strs),
                          since |-> Opt("since", LAMBDA x : x.n),
                          until |-> Opt("until", LAMBDA x : x.n),
                          limit |-> Opt("limit", LAMBDA x : x.n)]]

\* ---------------------------------------------------------- ClientMessage
Req(id, filter) == [t |-> "Req", id |-> id, filter |-> filter]
ClientEvent(event) == [t |-> "Event", event |-> event]
Close(id) == [t |-> "Close", id |-> id]

\* Serialize for ClientMessage: serialize_req, serialize_event, serialize_close.
EncodeClient(m) ==
    CASE m.t = "Req" -> JArr(<<JStr("REQ"), JStr(m.id), EncodeFilter(m.filter)>>)
      [] m.t = "Event" -> JArr(<<JStr("EVENT"), EncodeEvent(m.event)>>)
      [] OTHER -> JArr(<<JStr("CLOSE"), JStr(m.id)>>)

\* seq.next_element::<T>() at position i of the array a, followed by
\* ok_or_else(invalid_length): "err" when the element is missing or of the
\* wrong type, else what T's decoder gives.
NextString(a, i) ==
    IF i <= Len(a) /\ IsStr(a[i]) THEN [r |-> "ok", v |-> a[i].s] ELSE [r |-> "err"]

NextBool(a, i) ==
    IF i <= Len(a) /\ a[i].j = "bool" THEN [r |-> "ok", v |-> a[i].b] ELSE [r |-> "err"]

NextEvent(a, i) == IF i <= Len(a) THEN DecodeEvent(a[i]) ELSE [r |-> "err"]

NextFilter(a, i) == IF i <= Len(a) THEN DecodeFilter(a[i]) ELSE [r |-> "err"]

\* serde_json ends deserialize_seq with end_seq(): elements left over after the
\* visitor returned Ok are an error (trailing characters).
EndSeq(a, n, res) == IF res.r = "ok" /\ Len(a) > n THEN [r |-> "err"] ELSE res

deserialize_req(a) ==
    LET id == NextString(a, 2)
        filter == NextFilter(a, 3)
    IN  IF id.r # "ok" THEN [r |-> "err"]
        ELSE IF filter.r # "ok" THEN [r |-> "err"]
        ELSE [r |-> "ok", v |-> Req(id.v, filter.v)]

deserialize_event(a) ==
    LET event == NextEvent(a, 2)
    IN  IF event.r # "ok" THEN event ELSE [r |-> "ok", v |-> ClientEvent(event.v)]

deserialize_close(a) ==
    LET id == NextString(a, 2)
    IN  IF id.r # "ok" THEN [r |-> "err"] ELSE [r |-> "ok", v |-> Close(id.v)]

\* Deserialize for ClientMessage (ClientMessageVisitor::visit_seq), reached by
\* serde_json::from_str in process_nostr_message.
DecodeClient(text) ==
    IF text.j # "arr" THEN [r |-> "err"]
    ELSE LET a == text.a
             kind == NextString(a, 1)
         IN  IF kind.r # "ok" THEN [r |-> "err"]
             ELSE CASE kind.v = "REQ" -> EndSeq(a, 3, deserialize_req(a))
                    [] kind.v = "EVENT" -> EndSeq(a, 2, deserialize_event(a))
                    [] kind.v = "CLOSE" -> EndSeq(a, 2, deserialize_close(a))
                    [] OTHER -> [r |-> "err"]

\* ---------------------------------------------------------- ServerMessage
ServerEvent(subscribe_id, event) ==
    [t |-> "Event", subscribe_id |-> subscribe_id, event |-> event]
ServerOk(event_id, accepted, message) ==
    [t |-> "Ok", event_id |-> event_id, accepted |-> accepted, message |-> message]
EOSE(id) == [t |-> "EOSE", id |-> id]
Closed(subscribe_id, message) ==
    [t |-> "Closed", subscribe_id |-> subscribe_id, message |-> message]
Notice(message) == [t |-> "Notice", message |-> message]

\* Serialize for ServerMessage.
EncodeServer(m) ==
    CASE m.t = "Event" ->
           JArr(<<JStr("EVENT"), JStr(m.subscribe_id), EncodeEvent(m.event)>>)
      [] m.t = "Ok" ->
           JArr(<<JStr("OK"), JStr(m.event_id), JBool(m.accepted), JStr(m.message)>>)
      [] m.t = "EOSE" -> JArr(<<JStr("EOSE"), JStr(m.id)>>)
      [] m.t = "Closed" ->
           JArr(<<JStr("CLOSED"), JStr(m.subscribe_id), JStr(m.message)>>)
      [] OTHER -> JArr(<<JStr("NOTICE"), JStr(m.message)>>)

deserialize_server_event(a) ==
    LET subscribe_id == NextString(a, 2)
        event == NextEvent(a, 3)
    IN  IF subscribe_id.r # "ok" THEN [r |-> "err"]
        ELSE IF event.r # "ok" THEN event
        ELSE [r |-> "ok", v |-> ServerEvent(subscribe_id.v, event.v)]

deserialize_ok(a) ==
    LET event_id == NextString(a, 2)
        accepted == NextBool(a, 3)
        message == NextString(a, 4)
    IN  IF event_id.r # "ok" \/ accepted.r # "ok" \/ message.r # "ok"
          THEN [r |-> "err"]
        ELSE [r |-> "ok", v |-> ServerOk(event_id.v, accepted.v, message.v)]

deserialize_eose(a) ==
    LET id == NextString(a, 2)
    IN  IF id.r # "ok" THEN [r |-> "err"] ELSE [r |-> "ok", v |-> EOSE(id.v)]

\* deserialize_closed with its two strings taken in the wrong order.
deserialize_closed_Swapped(a) ==
    LET subscribe_id == NextString(a, 2)
        message == NextString(a, 3)
    IN  IF subscribe_id.r # "ok" \/ message.r # "ok" THEN [r |-> "err"]
        ELSE [r |-> "ok", v |-> Closed(message.v, subscribe_id.v)]

deserialize_closed(a) ==
    LET subscribe_id == NextString(a, 2)
        message == NextString(a, 3)
    IN  IF subscribe_id.r # "ok" \/ message.r # "ok" THEN [r |-> "err"]
        ELSE [r |-> "ok", v |-> Closed(subscribe_id.v, message.v)]

deserialize_notice(a) ==
    LET message == NextString(a, 2)
    IN  IF message.r # "ok" THEN [r |-> "err"] ELSE [r |-> "ok", v |-> Notice(message.v)]

\* Deserialize for ServerMessage (ServerMessageVisitor::visit_seq).
DecodeServer(text) ==
    IF text.j # "arr" THEN [r |-> "err"]
    ELSE LET a == text.a
             kind == NextString(a, 1)
         IN  IF kind.r # "ok" THEN [r |-> "err"]
             ELSE CASE kind.v = "EVENT" -> EndSeq(a, 3, deserialize_server_event(a))
                    [] kind.v = "OK" -> EndSeq(a, 4, deserialize_ok(a))
                    [] kind.v = "EOSE" -> EndSeq(a, 2, deserialize_eose(a))
                    [] kind.v = "CLOSED" -> EndSeq(a, 3, deserialize_closed(a))
                    [] kind.v = "NOTICE" -> EndSeq(a, 2, deserialize_notice(a))
                    [] OTHER -> [r |-> "err"]

\* ------------------------------------------------------------ match_event
\* contains(vec, item): an unset filter field always passes.
contains(vec, item) ==
    \A v \in vec : \E i \in 1..Len(v) : v[i] = item

\* Vec<String>::contains on one inner sequence of event.tags.
TagContains(t, tag) == \E k \in 1..Len(t) : t[k] = tag

\* filter.e_tags.iter().any(|e| e.iter().any(|tag| event.tags.iter().any(..))):
\* Option::iter() yields nothing for None, so any() over it is false.
tags_any(field, event) ==
    \E e \in field :
        \E i \in 1..Len(e) :
            \E n \in 1..Len(event.tags) : TagContains(event.tags[n], e[i])

\* match_event with the two time bounds taken as inclusive.
match_event_Inclusive(event, filter) ==
    /\ contains(filter.ids, event.id)
    /\ contains(filter.authors, event.pubkey)
    /\ contains(filter.kinds, u16_from_kind(event.kind))
    /\ tags_any(filter.e_tags, event)
    /\ tags_any(filter.p_tags, event)
    /\ (filter.since = None \/ \A since \in filter.since : since <= event.created_at)
    /\ (filter.until = None \/ \A until \in filter.until : until >= event.created_at)

match_event(event, filter) ==
    /\ contains(filter.ids, event.id)
    /\ contains(filter.authors, event.pubkey)
    /\ contains(filter.kinds, u16_from_kind(event.kind))
    /\ tags_any(filter.e_tags, event)
    /\ tags_any(filter.p_tags, event)
    /\ (filter.since = None \/ \A since \in filter.since : since < event.created_at)
    /\ (filter.until = None \/ \A until \in filter.until : until > event.created_at)

\* ------------------------------------------------------------ relay state
VARIABLES
    subscribers,  \* RelayState.subscribers: connection key -> Vec<Subscriber>
    queue,        \* per connection, the items in its message_tx/message_rx channel
    pc,           \* per connection, where handle_socket and its reader task are
    connected,    \* per connection, whether the peer still holds the transport
    last,         \* the (message, who) of the latest process_nostr_message dispatch
    m_in,         \* the (event, filter) handed to match_event on its own
    m_out,        \* Option<bool>: what match_event returned for m_in
    rw,           \* the connections whose reader holds a read guard of the RwLock
    lockq,        \* the readers waiting for the RwLock, in their order of arrival
    op,           \* per connection, the handler call its reader is in the middle of
    c_in,         \* what is handed to the codec or to UnsignedEvent on its own
    c_out         \* Option: what the codec or UnsignedEvent returned for c_in

vars == <<subscribers, queue, pc, connected, last, m_in, m_out, rw, lockq, op, c_in, c_out>>

\* WebSocket messages as process_message sees them.
Text(t) == [ws |-> "Text", t |-> t]
CloseFrame == [ws |-> "Close"]
Ping == [ws |-> "Ping"]

\* A reader that is in the middle of no handler call. In a call, m is the
\* client message (or Disconnect), i the number of subscribers the fan-out
\* loop has evaluated, seen those subscribers, and start the Registry as it
\* was when the read guard was taken.
NoOp == [m |-> [t |-> "None"], i |-> 0, seen |-> <<>>, start |-> <<>>]

\* The reader task's loop has ended and the task is at its last line.
Disconnect == [t |-> "Disconnect"]

\* No message dispatched yet.
NoMessage == [who |-> "", message |-> [t |-> "None"]]

Subscriber(client, sender, id, filter) ==
    [client |-> client, sender |-> sender, id |-> id, filter |-> filter]

\* ----------------------------------------------------------------- inputs
SubIds == {"s1", "s2"}

E1 ==
    [id |-> "id1", pubkey |-> "abc", created_at |-> 100, kind |-> "TextNote",
     tags |-> << <<"e", "x">>, <<"p", "y">> >>, content |-> "hello", sig |-> "sig1"]

E2 ==
    [id |-> "id2", pubkey |-> "def", created_at |-> 50, kind |-> "MetaData",
     tags |-> <<>>, content |-> "", sig |-> "sig2"]

Events == {E1, E2}

\* Two filters with both tag fields set: FTags matches E1 and not E2, FOther
\* matches neither.
FTags == [Filter_new EXCEPT !.e_tags = Some(<<"x">>), !.p_tags = Some(<<"y">>)]

FOther == [Filter_new EXCEPT !.e_tags = Some(<<"z">>), !.p_tags = Some(<<"y">>)]

\* The subscriptions a peer asks for.
Reqs == {Req("s1", FTags), Req("s2", FOther)}

\* An EVENT whose event is well formed but for its kind, 2.
BadKindText ==
    JArr(<<JStr("EVENT"),
           JObj([EncodeEvent(E2).o EXCEPT !["kind"] = JNum(2)])>>)

\* Not JSON, a REQ without its filter, an unknown tag.
BadTexts ==
    {JGarbage,
     JArr(<<JStr("REQ"), JStr("s1")>>),
     JArr(<<JStr("AUTH"), JStr("s1")>>)}

GoodTexts ==
    {EncodeClient(req) : req \in Reqs}
      \cup {EncodeClient(ClientEvent(e)) : e \in Events}
      \cup {EncodeClient(Close(id)) : id \in SubIds}

Texts == GoodTexts \cup BadTexts \cup {BadKindText}

Messages == {Text(t) : t \in Texts} \cup {CloseFrame, Ping}

\* The REQ frames of the specification of REQ on its own: either id with any of
\* three filters, so that one id comes with different filters.
ReqFilters == {Filter_new, FTags, FOther}

ReqTexts == {EncodeClient(Req(id, filter)) : id \in SubIds, filter \in ReqFilters}

\* ---------------------------------------------------------------- helpers
RECURSIVE SumLen(_, _)
SumLen(f, S) ==
    IF S = {} THEN 0
    ELSE LET k == CHOOSE x \in S : TRUE IN Len(f[k]) + SumLen(f, S \ {k})

TotalSubs == SumLen(subscribers, DOMAIN subscribers)
TotalQueued == SumLen(queue, Conns)

\* HashMap::iter().flat_map(|(_, subscribers)| subscribers): the subscribers of
\* every entry, entry after entry. The order of the entries is the map's own;
\* one fixed order is taken here (every sender is the same queue
\* in process_event_message, and the copies are equal, so the order of the
\* entries does not show in any queue).
RECURSIVE FlatMap(_, _)
FlatMap(map, keys) ==
    IF keys = {} THEN <<>>
    ELSE LET k == CHOOSE x \in keys : TRUE
         IN  map[k] \o FlatMap(map, keys \ {k})

\* HashMap::remove(&who).
Remove(map, who) == [k \in DOMAIN map \ {who} |-> map[k]]

\* ------------------------------------------------------------- operations
\* process_req_message answering from history: the event of the latest EVENT
\* is sent to the new subscription when its filter matches.
process_req_message_Backfill(req, who) ==
    /\ TotalSubs < MaxSubs
    /\ subscribers' =
         [k \in DOMAIN subscribers \cup {who} |->
            IF k = who
              THEN (IF who \in DOMAIN subscribers THEN subscribers[who] ELSE <<>>)
                     \o <<Subscriber(who, who, req.id, req.filter)>>
              ELSE subscribers[k]]
    /\ queue' =
         IF last.message.t = "Event" /\ TotalQueued < MaxQueue
              /\ match_event(last.message.event, req.filter)
           THEN [queue EXCEPT ![who] = Append(@, EncodeEvent(last.message.event))]
           ELSE queue

\* process_req_message pushing the Subscriber onto the entry of the other
\* connection.
process_req_message_Misfiled(req, who) ==
    /\ TotalSubs < MaxSubs
    /\ LET other == CHOOSE k \in Conns : k # who
       IN  subscribers' =
             [k \in DOMAIN subscribers \cup {other} |->
                IF k = other
                  THEN (IF other \in DOMAIN subscribers THEN subscribers[other] ELSE <<>>)
                         \o <<Subscriber(who, who, req.id, req.filter)>>
                  ELSE subscribers[k]]
    /\ UNCHANGED queue

\* process_req_message with a subscription of the same id replaced, not kept.
process_req_message_Replace(req, who) ==
    /\ TotalSubs < MaxSubs
    /\ subscribers' =
         [k \in DOMAIN subscribers \cup {who} |->
            IF k = who
              THEN (IF who \in DOMAIN subscribers
                      THEN SelectSeq(subscribers[who], LAMBDA s : s.id # req.id)
                      ELSE <<>>)
                     \o <<Subscriber(who, who, req.id, req.filter)>>
              ELSE subscribers[k]]
    /\ UNCHANGED queue

\* process_req_message: entry(who).or_insert(Vec::new()).push(Subscriber{..}).
process_req_message(req, who) ==
    /\ TotalSubs < MaxSubs
    /\ subscribers' =
         [k \in DOMAIN subscribers \cup {who} |->
            IF k = who
              THEN (IF who \in DOMAIN subscribers THEN subscribers[who] ELSE <<>>)
                     \o <<Subscriber(who, who, req.id, req.filter)>>
              ELSE subscribers[k]]
    /\ UNCHANGED queue

\* EventSends with the copies sent without the event's signature.
EventSends_Unsigned(event) ==
    <<EncodeServer(ServerOk(event.id, TRUE, ""))>>
      \o [i \in 1..Len(SelectSeq(FlatMap(subscribers, DOMAIN subscribers),
                                 LAMBDA s : match_event(event, s.filter))) |->
            EncodeEvent([event EXCEPT !.sig = ""])]

\* EventSends with the OK sent after the copies instead of before them.
EventSends_OkLast(event) ==
    [i \in 1..Len(SelectSeq(FlatMap(subscribers, DOMAIN subscribers),
                            LAMBDA s : match_event(event, s.filter))) |->
       EncodeEvent(event)]
      \o <<EncodeServer(ServerOk(event.id, TRUE, ""))>>

\* What process_event_message sends on message_sender: the OK, then one raw
\* event for every subscriber in the Registry whose filter matches.
EventSends(event) ==
    <<EncodeServer(ServerOk(event.id, TRUE, ""))>>
      \o [i \in 1..Len(SelectSeq(FlatMap(subscribers, DOMAIN subscribers),
                                 LAMBDA s : match_event(event, s.filter))) |->
            EncodeEvent(event)]

\* process_event_message dropping from the Registry the subscriptions whose
\* filter does not match the event.
process_event_message_Prunes(event, who) ==
    /\ TotalQueued + Len(EventSends(event)) <= MaxQueue
    /\ queue' = [queue EXCEPT ![who] = @ \o EventSends(event)]
    /\ subscribers' =
         [k \in DOMAIN subscribers |->
            SelectSeq(subscribers[k], LAMBDA s : match_event(event, s.filter))]

\* process_event_message: every send is on message_sender, the channel of the
\* connection that sent the EVENT.
process_event_message(event, who) ==
    /\ TotalQueued + Len(EventSends(event)) <= MaxQueue
    /\ queue' = [queue EXCEPT ![who] = @ \o EventSends(event)]
    /\ UNCHANGED subscribers

\* process_close_message answering the CLOSE with a CLOSED message.
process_close_message_Closed(id, who) ==
    /\ subscribers' =
         IF who \in DOMAIN subscribers
           THEN [subscribers EXCEPT ![who] = SelectSeq(@, LAMBDA s : s.id # id)]
           ELSE subscribers
    /\ queue' = [queue EXCEPT ![who] = <<EncodeServer(Closed(id, ""))>>]

\* process_close_message with the retain applied to every entry of the Registry.
process_close_message_AllEntries(id, who) ==
    /\ subscribers' =
         [k \in DOMAIN subscribers |-> SelectSeq(subscribers[k], LAMBDA s : s.id # id)]
    /\ UNCHANGED queue

\* process_close_message removing only the first subscription with the id.
process_close_message_FirstOnly(id, who) ==
    /\ subscribers' =
         IF who \in DOMAIN subscribers
              /\ \E i \in 1..Len(subscribers[who]) : subscribers[who][i].id = id
           THEN LET seq == subscribers[who]
                    n == CHOOSE i \in 1..Len(seq) :
                           seq[i].id = id /\ \A k \in 1..(i - 1) : seq[k].id # id
                IN  [subscribers EXCEPT
                       ![who] = SubSeq(seq, 1, n - 1) \o SubSeq(seq, n + 1, Len(seq))]
           ELSE subscribers
    /\ UNCHANGED queue

\* process_close_message: retain(|s| s.id != id) on who's entry, if any.
process_close_message(id, who) ==
    /\ subscribers' =
         IF who \in DOMAIN subscribers
           THEN [subscribers EXCEPT ![who] = SelectSeq(@, LAMBDA s : s.id # id)]
           ELSE subscribers
    /\ UNCHANGED queue

\* serde_json::from_str::<ClientMessage> of every text the model sends, each
\* decoded once.
Decoded == [t \in Texts \cup ReqTexts |-> DecodeClient(t)]

\* process_nostr_message: the text is decoded and the message dispatched; a
\* text that fails to decode returns the error and changes nothing.
process_nostr_message(t, who) ==
    IF Decoded[t].r = "ok"
      THEN LET message == Decoded[t].v
           IN  /\ CASE message.t = "Req" -> process_req_message(message, who)
                    [] message.t = "Event" -> process_event_message(message.event, who)
                    [] OTHER -> process_close_message(message.id, who)
               /\ last' = [who |-> who, message |-> message]
      ELSE UNCHANGED <<subscribers, queue, last>>

\* What process_message returns for msg: "Continue" or "Break"; "Panic" when
\* decoding the text panics instead of returning.
ControlFlow(msg) ==
    CASE msg.ws = "Close" -> "Break"
      [] msg.ws = "Text" /\ Decoded[msg.t].r = "panic" -> "Panic"
      [] OTHER -> "Continue"

\* process_message(msg, state, who, message_tx): the effect on the Registry and
\* the queues. Only a text is looked into; its decode error is logged.
process_message(msg, who) ==
    IF msg.ws = "Text"
      THEN process_nostr_message(msg.t, who)
      ELSE UNCHANGED <<subscribers, queue, last>>

\* pc[who] is "first" while handle_socket waits for the first message, "open"
\* once the writer and reader tasks are spawned, "closed" when the handler has
\* returned or the reader task has run to its end, "aborted" when the handler
\* panicked on the first message, and "panicked" when the reader task was
\* ended by a panic (its last line, the removal, never ran).

\* handle_socket, the first sock_rx.next() (before the tasks are spawned)
\* yields Some(Ok(msg)): a Break returns; a panic unwinds the handler, which
\* drops the socket and the channel, and no entry exists yet.
FirstMessage(who, msg) ==
    /\ pc[who] = "first"
    /\ connected[who]
    /\ process_message(msg, who)
    /\ pc' = [pc EXCEPT ![who] =
                CASE ControlFlow(msg) = "Break" -> "closed"
                  [] ControlFlow(msg) = "Panic" -> "aborted"
                  [] OTHER -> "open"]
    /\ connected' = [connected EXCEPT ![who] = ControlFlow(msg) = "Continue"]
    /\ UNCHANGED <<m_in, m_out, c_in, c_out, rw, lockq, op>>

\* The reader task's loop gets Some(Ok(msg)) and process_message continues or
\* panics; a panic ends the task before the line that removes the entry.
ReaderMessage(who, msg) ==
    /\ pc[who] = "open"
    /\ connected[who]
    /\ ControlFlow(msg) # "Break"
    /\ process_message(msg, who)
    /\ pc' = [pc EXCEPT ![who] = IF ControlFlow(msg) = "Panic" THEN "panicked" ELSE "open"]
    /\ UNCHANGED <<connected, m_in, m_out, c_in, c_out, rw, lockq, op>>

\* ReaderEnd without its last line: who's entry stays in the Registry.
ReaderEnd_KeepsEntry(who, how) ==
    /\ pc[who] = "open"
    /\ connected[who]
    /\ pc' = [pc EXCEPT ![who] = "closed"]
    /\ connected' = [connected EXCEPT ![who] = FALSE]
    /\ UNCHANGED <<subscribers, queue, last, m_in, m_out, c_in, c_out, rw, lockq, op>>

\* ReaderEnd with the whole Registry cleared instead of who's entry removed.
ReaderEnd_ClearsAll(who, how) ==
    /\ pc[who] = "open"
    /\ connected[who]
    /\ subscribers' = [k \in {} |-> <<>>]
    /\ pc' = [pc EXCEPT ![who] = "closed"]
    /\ connected' = [connected EXCEPT ![who] = FALSE]
    /\ UNCHANGED <<queue, last, m_in, m_out, c_in, c_out, rw, lockq, op>>

\* The reader task's loop ends: a close frame (Break), Some(Err) or None; the
\* task then removes the connection's entry.
ReaderEnd(who, how) ==
    /\ pc[who] = "open"
    /\ connected[who]
    /\ subscribers' = Remove(subscribers, who)
    /\ pc' = [pc EXCEPT ![who] = "closed"]
    /\ connected' = [connected EXCEPT ![who] = FALSE]
    /\ UNCHANGED <<queue, last, m_in, m_out, c_in, c_out, rw, lockq, op>>

\* handle_socket, the first sock_rx.next() yields Some(Err): return. (On None
\* the tasks are spawned and the reader ends at once; no entry exists yet.)
FirstReadEnd(who, how) ==
    /\ pc[who] = "first"
    /\ connected[who]
    /\ pc' = [pc EXCEPT ![who] = "closed"]
    /\ subscribers' = IF how = "Err" THEN subscribers ELSE Remove(subscribers, who)
    /\ connected' = [connected EXCEPT ![who] = FALSE]
    /\ UNCHANGED <<queue, last, m_in, m_out, c_in, c_out, rw, lockq, op>>

\* The peer closes the transport of a connection whose reader has panicked:
\* nothing reads the stream any more, so the relay does nothing.
PeerGone(who) ==
    /\ pc[who] = "panicked"
    /\ connected[who]
    /\ connected' = [connected EXCEPT ![who] = FALSE]
    /\ UNCHANGED <<subscribers, queue, pc, last, m_in, m_out, c_in, c_out, rw, lockq, op>>

\* The writer task exists once the tasks were spawned (a handler that returned
\* before that has an empty queue).
WriterSpawned(who) == pc[who] \notin {"first", "aborted"}

\* The writer task taking the newest item of the queue instead of the oldest.
Writer_Newest(who) ==
    /\ WriterSpawned(who)
    /\ queue[who] # <<>>
    /\ queue' = [queue EXCEPT ![who] = SubSeq(@, 1, Len(@) - 1)]
    /\ UNCHANGED <<subscribers, pc, connected, last, m_in, m_out, c_in, c_out, rw, lockq, op>>

\* The writer task: message_rx.recv() gives the oldest item, which is written
\* to the socket (a write error is ignored).
Writer(who) ==
    /\ WriterSpawned(who)
    /\ queue[who] # <<>>
    /\ queue' = [queue EXCEPT ![who] = Tail(@)]
    /\ UNCHANGED <<subscribers, pc, connected, last, m_in, m_out, c_in, c_out, rw, lockq, op>>

\* The event and filter of the relay's specifications, which never call
\* match_event on its own.
MatchIdle == [event |-> E1, filter |-> Filter_new]

\* Nothing handed to the codec.
CodecIdle == [k |-> "none", x |-> JNull]

\* serve(): an empty Registry; every connection has been upgraded and waits
\* for its first message.
Init ==
    /\ subscribers = [k \in {} |-> <<>>]
    /\ queue = [c \in Conns |-> <<>>]
    /\ pc = [c \in Conns |-> "first"]
    /\ connected = [c \in Conns |-> TRUE]
    /\ last = NoMessage
    /\ m_in = MatchIdle
    /\ m_out = None
    /\ rw = {}
    /\ lockq = <<>>
    /\ op = [c \in Conns |-> NoOp]
    /\ c_in = CodecIdle
    /\ c_out = None

Next ==
    \E who \in Conns :
        \/ \E msg \in Messages : FirstMessage(who, msg)
        \/ \E msg \in Messages : ReaderMessage(who, msg)
        \/ \E how \in {"Close", "Err", "None"} : ReaderEnd(who, how)
        \/ \E how \in {"Err", "None"} : FirstReadEnd(who, how)
        \/ PeerGone(who)
        \/ Writer(who)

Spec == Init /\ [][Next]_vars

\* ------------------------------------------------- match_event on its own
\* The events and filters match_event is applied to.
MatchEvents ==
    {[id |-> "id1", pubkey |-> pubkey, created_at |-> created_at, kind |-> kind,
      tags |-> tags, content |-> "hello", sig |-> "sig1"] :
        pubkey \in {"abc", "def"}, created_at \in {50, 100}, kind \in EventKinds,
        tags \in {<<>>, << <<"e", "x">> >>, << <<"e", "x">>, <<"p", "y">> >>}}

MatchFilters ==
    {[Filter_new EXCEPT !.ids = ids, !.authors = authors, !.kinds = kinds,
                        !.e_tags = e_tags, !.p_tags = p_tags, !.since = since,
                        !.until = until, !.limit = limit] :
        ids \in {None, Some(<<"id2", "id1">>), Some(<<"id">>)},
        limit \in {None, Some(0)},
        authors \in {None, Some(<<"abc">>), Some(<<"ab">>)},
        kinds \in {None, Some(<<1>>), Some(<<2>>)},
        e_tags \in {None, Some(<<"x">>), Some(<<"z">>)},
        p_tags \in {None, Some(<<"y">>), Some(<<"z", "x">>)},
        since \in {None, Some(50), Some(100)},
        until \in {None, Some(100)}}

MatchInit ==
    /\ subscribers = [k \in {} |-> <<>>]
    /\ queue = [c \in Conns |-> <<>>]
    /\ pc = [c \in Conns |-> "first"]
    /\ connected = [c \in Conns |-> TRUE]
    /\ last = NoMessage
    /\ m_in \in [event : MatchEvents, filter : MatchFilters]
    /\ m_out = None
    /\ rw = {}
    /\ lockq = <<>>
    /\ op = [c \in Conns |-> NoOp]
    /\ c_in = CodecIdle
    /\ c_out = None

\* One call of match_event(&event, &filter).
MatchApply ==
    /\ m_out = None
    /\ m_out' = Some(match_event(m_in.event, m_in.filter))
    /\ UNCHANGED <<subscribers, queue, pc, connected, last, m_in, rw, lockq, op, c_in, c_out>>

SpecMatch == MatchInit /\ [][MatchApply]_vars

\* ------------------------------------------------------- REQ on its own
\* The relay with peers that send REQ frames only.
ReqNext ==
    \E who \in Conns : \E t \in ReqTexts :
        \/ FirstMessage(who, Text(t))
        \/ ReaderMessage(who, Text(t))

SpecReq == Init /\ [][ReqNext]_vars

\* ------------------------------------------- the handlers under the RwLock
\* The handlers step by step: every handler call takes the Registry's RwLock
\* (write() in process_req_message, process_close_message and the reader's
\* last line, read() in process_event_message) and may have to wait for it; the
\* fan-out loop holds its read guard from its first subscriber to its last.
\* pc[who] is "open" while the reader waits for a frame, "wait" while it waits
\* for the lock, "loop" while it is in the fan-out loop, "closed" at its end.
\* The lock is granted in the order of arrival.
\* The frames the peers send: either REQ, the EVENT of E1 and a CLOSE.
LockTexts ==
    {EncodeClient(req) : req \in Reqs}
      \cup {EncodeClient(ClientEvent(E1)), EncodeClient(Close("s1"))}

\* The sends the fan-outs in progress of the connections S may still make.
RECURSIVE Pending(_)
Pending(S) ==
    IF S = {} THEN 0
    ELSE LET c == CHOOSE x \in S : TRUE
         IN  (IF op[c].m.t = "Event" THEN MaxSubs - op[c].i ELSE 0) + Pending(S \ {c})

\* The queued items the step-by-step model goes up to: a whole fan-out (the OK
\* and a copy for every subscriber) and one item more.
LockQueueCap == MaxSubs + 2

\* The reader's loop gets a text frame that decodes: process_nostr_message
\* calls the handler, which runs up to its lock().await; process_event_message
\* has sent its OK by then.
Receive(who, t) ==
    /\ pc[who] = "open"
    /\ connected[who]
    /\ LET message == Decoded[t].v
       IN  /\ last' = [who |-> who, message |-> message]
           /\ op' = [op EXCEPT ![who] = [NoOp EXCEPT !.m = message]]
           /\ IF message.t = "Event"
                THEN /\ TotalQueued + Pending(Conns) + 1 + MaxSubs <= LockQueueCap
                     /\ queue' = [queue EXCEPT ![who] =
                                    Append(@, EncodeServer(ServerOk(message.event.id, TRUE, "")))]
                ELSE /\ message.t = "Req" =>
                          TotalSubs + Cardinality({c \in Conns : op[c].m.t = "Req"}) < MaxSubs
                     /\ UNCHANGED queue
    /\ lockq' = Append(lockq, who)
    /\ pc' = [pc EXCEPT ![who] = "wait"]
    /\ UNCHANGED <<subscribers, connected, m_in, m_out, c_in, c_out, rw>>

\* The reader's loop ends (close frame, read error or end of stream) and the
\* task reaches subscribers.write().await of its last line.
ReaderLoopEnd(who) ==
    /\ pc[who] = "open"
    /\ connected[who]
    /\ op' = [op EXCEPT ![who] = [NoOp EXCEPT !.m = Disconnect]]
    /\ lockq' = Append(lockq, who)
    /\ pc' = [pc EXCEPT ![who] = "wait"]
    /\ connected' = [connected EXCEPT ![who] = FALSE]
    /\ UNCHANGED <<subscribers, queue, last, m_in, m_out, c_in, c_out, rw>>

\* WriteLocked taking the write guard while read guards are held.
WriteLocked_NoExclusion(who) ==
    /\ pc[who] = "wait"
    /\ lockq # <<>> /\ Head(lockq) = who
    /\ op[who].m.t \in {"Req", "Close", "Disconnect"}
    /\ CASE op[who].m.t = "Req" -> process_req_message(op[who].m, who)
         [] op[who].m.t = "Close" -> process_close_message(op[who].m.id, who)
         [] OTHER -> subscribers' = Remove(subscribers, who) /\ UNCHANGED queue
    /\ lockq' = Tail(lockq)
    /\ pc' = [pc EXCEPT ![who] = IF op[who].m = Disconnect THEN "closed" ELSE "open"]
    /\ op' = [op EXCEPT ![who] = NoOp]
    /\ UNCHANGED <<connected, last, m_in, m_out, c_in, c_out, rw>>

\* write().await returns: no guard is held and who is the first waiting. The
\* push, the retain or the remove follows with no await in between and the
\* guard is dropped, so the three are one step.
WriteLocked(who) ==
    /\ pc[who] = "wait"
    /\ lockq # <<>> /\ Head(lockq) = who
    /\ op[who].m.t \in {"Req", "Close", "Disconnect"}
    /\ rw = {}
    /\ CASE op[who].m.t = "Req" -> process_req_message(op[who].m, who)
         [] op[who].m.t = "Close" -> process_close_message(op[who].m.id, who)
         [] OTHER -> subscribers' = Remove(subscribers, who) /\ UNCHANGED queue
    /\ lockq' = Tail(lockq)
    /\ pc' = [pc EXCEPT ![who] = IF op[who].m = Disconnect THEN "closed" ELSE "open"]
    /\ op' = [op EXCEPT ![who] = NoOp]
    /\ UNCHANGED <<connected, last, m_in, m_out, c_in, c_out, rw>>

\* ReadLocked with the read guard dropped before the for loop starts.
ReadLocked_NoGuard(who) ==
    /\ pc[who] = "wait"
    /\ lockq # <<>> /\ Head(lockq) = who
    /\ op[who].m.t = "Event"
    /\ lockq' = Tail(lockq)
    /\ pc' = [pc EXCEPT ![who] = "loop"]
    /\ op' = [op EXCEPT ![who].start = subscribers]
    /\ UNCHANGED <<subscribers, queue, connected, last, m_in, m_out, c_in, c_out, rw>>

\* read().await of process_event_message returns: who is the first waiting (a
\* write guard is never held across a step). The guard lives as long as the
\* for loop.
ReadLocked(who) ==
    /\ pc[who] = "wait"
    /\ lockq # <<>> /\ Head(lockq) = who
    /\ op[who].m.t = "Event"
    /\ rw' = rw \cup {who}
    /\ lockq' = Tail(lockq)
    /\ pc' = [pc EXCEPT ![who] = "loop"]
    /\ op' = [op EXCEPT ![who].start = subscribers]
    /\ UNCHANGED <<subscribers, queue, connected, last, m_in, m_out, c_in, c_out>>

\* FanOutStep with a send that waits while the queue holds an item (a bounded
\* channel of capacity one).
FanOutStep_BoundedSend(who) ==
    /\ pc[who] = "loop"
    /\ LET all == FlatMap(subscribers, DOMAIN subscribers)
           i == op[who].i
       IN  /\ i < Len(all)
           /\ match_event(op[who].m.event, all[i + 1].filter) => Len(queue[who]) < 1
           /\ queue' = IF match_event(op[who].m.event, all[i + 1].filter)
                          THEN [queue EXCEPT ![who] = Append(@, EncodeEvent(op[who].m.event))]
                          ELSE queue
           /\ op' = [op EXCEPT ![who].i = i + 1, ![who].seen = Append(@, all[i + 1])]
    /\ UNCHANGED <<subscribers, pc, connected, last, m_in, m_out, c_in, c_out, rw, lockq>>

\* One iteration of the for loop of process_event_message: the next
\* subscriber is matched and, on a match, the raw event is sent on
\* message_sender; the send never waits.
FanOutStep(who) ==
    /\ pc[who] = "loop"
    /\ LET all == FlatMap(subscribers, DOMAIN subscribers)
           i == op[who].i
       IN  /\ i < Len(all)
           /\ queue' = IF match_event(op[who].m.event, all[i + 1].filter)
                          THEN [queue EXCEPT ![who] = Append(@, EncodeEvent(op[who].m.event))]
                          ELSE queue
           /\ op' = [op EXCEPT ![who].i = i + 1, ![who].seen = Append(@, all[i + 1])]
    /\ UNCHANGED <<subscribers, pc, connected, last, m_in, m_out, c_in, c_out, rw, lockq>>

\* The for loop is over: the read guard is dropped and the handler returns.
FanOutEnd(who) ==
    /\ pc[who] = "loop"
    /\ op[who].i >= Len(FlatMap(subscribers, DOMAIN subscribers))
    /\ rw' = rw \ {who}
    /\ pc' = [pc EXCEPT ![who] = "open"]
    /\ op' = [op EXCEPT ![who] = NoOp]
    /\ UNCHANGED <<subscribers, queue, connected, last, m_in, m_out, c_in, c_out, lockq>>

\* Every connection is past its first message, with its two tasks running.
LockInit ==
    /\ subscribers = [k \in {} |-> <<>>]
    /\ queue = [c \in Conns |-> <<>>]
    /\ pc = [c \in Conns |-> "open"]
    /\ connected = [c \in Conns |-> TRUE]
    /\ last = NoMessage
    /\ m_in = MatchIdle
    /\ m_out = None
    /\ rw = {}
    /\ lockq = <<>>
    /\ op = [c \in Conns |-> NoOp]
    /\ c_in = CodecIdle
    /\ c_out = None

LockNext ==
    \E who \in Conns :
        \/ \E t \in LockTexts : Receive(who, t)
        \/ ReaderLoopEnd(who)
        \/ WriteLocked(who)
        \/ ReadLocked(who)
        \/ FanOutStep(who)
        \/ FanOutEnd(who)
        \/ Writer(who)

SpecLock == LockInit /\ [][LockNext]_vars

\* ---------------------------------------------------- the codec on its own
\* The filters handed to the codec: every field unset or set.
CodecFilters ==
    {[ids |-> ids, authors |-> authors, kinds |-> kinds, e_tags |-> e_tags,
      p_tags |-> p_tags, since |-> since, until |-> until, limit |-> limit] :
        ids \in {None, Some(<<"id1">>)},
        authors \in {None, Some(<<"abc", "def">>)},
        kinds \in {None, Some(<<>>), Some(<<1>>)},
        e_tags \in {None, Some(<<"x">>)},
        p_tags \in {None, Some(<<"y">>)},
        since \in {None, Some(50)},
        until \in {None, Some(100)},
        limit \in {None, Some(10)}}

CodecClientMessages ==
    {Req("s1", filter) : filter \in CodecFilters}
      \cup {ClientEvent(e) : e \in Events}
      \cup {Close(id) : id \in SubIds}

CodecServerMessages ==
    {ServerEvent(id, e) : id \in SubIds, e \in Events}
      \cup {ServerOk(e.id, accepted, message) :
               e \in Events, accepted \in BOOLEAN, message \in {"", "blocked"}}
      \cup {EOSE(id) : id \in SubIds}
      \cup {Closed(id, message) : id \in SubIds, message \in {"", "bye"}}
      \cup {Notice(message) : message \in {"", "hello"}}

\* Arrays with a recognized tag and too few or too many elements.
WrongArity ==
    {JArr(<<JStr("REQ")>>),
     JArr(<<JStr("REQ"), JStr("s1")>>),
     JArr(<<JStr("REQ"), JStr("s1"), EncodeFilter(FTags), EncodeFilter(FOther)>>),
     JArr(<<JStr("EVENT")>>),
     JArr(<<JStr("EVENT"), EncodeEvent(E1), EncodeEvent(E2)>>),
     JArr(<<JStr("CLOSE")>>),
     JArr(<<JStr("CLOSE"), JStr("s1"), JStr("s2")>>)}

\* Arrays with a recognized tag, the right length and an element of the wrong
\* type.
WrongType ==
    {JArr(<<JStr("REQ"), JNum(1), EncodeFilter(FTags)>>),
     JArr(<<JStr("REQ"), JStr("s1"), JStr("filter")>>),
     JArr(<<JStr("REQ"), JStr("s1"), JObj([kinds |-> JStr("1")])>>),
     JArr(<<JStr("EVENT"), JStr("event")>>),
     JArr(<<JStr("EVENT"), JObj([EncodeEvent(E1).o EXCEPT !["created_at"] = JStr("100")])>>),
     JArr(<<JStr("CLOSE"), JBool(TRUE)>>)}

\* Arrays whose first element is not a recognized tag.
UnknownTag ==
    {JArr(<<JStr("AUTH"), JStr("s1")>>),
     JArr(<<JStr("req"), JStr("s1"), EncodeFilter(FTags)>>),
     JArr(<<JStr("NOTICE"), JStr("hello")>>)}

CodecInputs ==
    {[k |-> "client", x |-> m] : m \in CodecClientMessages}
      \cup {[k |-> "server", x |-> m] : m \in CodecServerMessages}
      \cup {[k |-> "wire", x |-> t] : t \in WrongArity \cup WrongType \cup UnknownTag}
      \cup {[k |-> "filter", x |-> f] : f \in CodecFilters}

\* map_err(|e| NostrError::InvalidMessage(e.to_string())) in
\* process_nostr_message: the NostrError a decode result is turned into.
\* NostrError has the one variant.
map_err(res) == IF res.r = "err" THEN Some("InvalidMessage") ELSE None

CodecInit ==
    /\ subscribers = [k \in {} |-> <<>>]
    /\ queue = [c \in Conns |-> <<>>]
    /\ pc = [c \in Conns |-> "first"]
    /\ connected = [c \in Conns |-> TRUE]
    /\ last = NoMessage
    /\ m_in = MatchIdle
    /\ m_out = None
    /\ rw = {}
    /\ lockq = <<>>
    /\ op = [c \in Conns |-> NoOp]
    /\ c_in \in CodecInputs
    /\ c_out = None

\* serde_json::to_string of a ClientMessage, then serde_json::from_str.
RoundTripClient ==
    /\ c_in.k = "client" /\ c_out = None
    /\ c_out' = Some([wire |-> EncodeClient(c_in.x),
                      back |-> DecodeClient(EncodeClient(c_in.x))])
    /\ UNCHANGED <<subscribers, queue, pc, connected, last, m_in, m_out, rw, lockq, op, c_in>>

\* serde_json::to_string of a ServerMessage, then serde_json::from_str.
RoundTripServer ==
    /\ c_in.k = "server" /\ c_out = None
    /\ c_out' = Some([wire |-> EncodeServer(c_in.x),
                      back |-> DecodeServer(EncodeServer(c_in.x))])
    /\ UNCHANGED <<subscribers, queue, pc, connected, last, m_in, m_out, rw, lockq, op, c_in>>

\* serde_json::from_str::<ClientMessage> of a text as process_nostr_message
\* calls it, with the error it returns.
DecodeWire ==
    /\ c_in.k = "wire" /\ c_out = None
    /\ c_out' = Some([back |-> DecodeClient(c_in.x),
                      error |-> map_err(DecodeClient(c_in.x))])
    /\ UNCHANGED <<subscribers, queue, pc, connected, last, m_in, m_out, rw, lockq, op, c_in>>

\* serde_json::to_string of a Filter.
SerializeFilter ==
    /\ c_in.k = "filter" /\ c_out = None
    /\ c_out' = Some([wire |-> EncodeFilter(c_in.x), keys |-> FilterKeysEmitted(c_in.x)])
    /\ UNCHANGED <<subscribers, queue, pc, connected, last, m_in, m_out, rw, lockq, op, c_in>>

CodecNext == RoundTripClient \/ RoundTripServer \/ DecodeWire \/ SerializeFilter

SpecCodec == CodecInit /\ [][CodecNext]_vars

\* ================================================================ claims

\* The per-field check the specification gives for e_tags and p_tags: unset,
\* or one listed value equals one string of one inner sequence of event.tags.
TagCheck(field, event) ==
    \/ field = None
    \/ \E listed \in field :
         \E i \in 1..Len(listed) :
            \E n \in 1..Len(event.tags) :
               \E k \in 1..Len(event.tags[n]) : event.tags[n][k] = listed[i]

\* C4: for an event with kind = 1, pubkey = "abc", created_at = 100, the
\* filter {kinds:[1], since:50} matches and the filter {kinds:[2]} does not;
\* the empty filter matches every event.
C4_MatchExamples ==
    \A r \in m_out :
        LET e == m_in.event
            f == m_in.filter
            TheEvent == e.kind = "TextNote" /\ e.pubkey = "abc" /\ e.created_at = 100
        IN  /\ (TheEvent /\ f = [Filter_new EXCEPT !.kinds = Some(<<1>>),
                                                   !.since = Some(50)]) => r = TRUE
            /\ (TheEvent /\ f = [Filter_new EXCEPT !.kinds = Some(<<2>>)]) => r = FALSE
            /\ (f = Filter_new) => r = TRUE

\* C5: the e_tags check and the p_tags check are true iff the field is unset
\* or a listed value occurs in event.tags; with every other field unset the
\* predicate is the conjunction of the two, so an unset tag field never makes
\* it false.
C5_TagChecks ==
    \A r \in m_out :
        LET e == m_in.event
            f == m_in.filter
        IN  (f.ids = None /\ f.authors = None /\ f.kinds = None
               /\ f.since = None /\ f.until = None)
              => (r = (TagCheck(f.e_tags, e) /\ TagCheck(f.p_tags, e)))

\* ----------------------------------------------------- the relay's claims
\* The step in which connection who's reader dispatches the client message m
\* (such a step records m in last, which is compared first).
Dispatched(who, m) ==
    /\ last' = [who |-> who, message |-> m]
    /\ \/ FirstMessage(who, Text(EncodeClient(m)))
       \/ ReaderMessage(who, Text(EncodeClient(m)))

\* queue'[c] is queue[c] with items appended.
Extends(c) ==
    /\ Len(queue'[c]) >= Len(queue[c])
    /\ SubSeq(queue'[c], 1, Len(queue[c])) = queue[c]

\* The items a step appended to c's queue.
Appended(c) == SubSeq(queue'[c], Len(queue[c]) + 1, Len(queue'[c]))

\* The number of items of seq that are the raw event e.
Copies(seq, e) == Len(SelectSeq(seq, LAMBDA x : x = EncodeEvent(e)))

\* The subscriptions stored under key c in reg.
EntryOf(reg, c) == IF c \in DOMAIN reg THEN reg[c] ELSE <<>>

\* The number of subscriptions of connection c in reg whose filter matches e.
Matching(reg, c, e) ==
    Len(SelectSeq(EntryOf(reg, c), LAMBDA sub : match_event(e, sub.filter)))

\* item decodes to the OK acknowledgement of e: accepted, empty message.
IsOkFor(item, e) == DecodeServer(item) = [r |-> "ok", v |-> ServerOk(e.id, TRUE, "")]

\* C1: an EVENT(E) dispatched by any connection enqueues, for every
\* subscription in the Registry whose filter matches E, one copy of E on the
\* queue of the connection that owns the subscription, and on no other queue.
C1_DeliverToOwner ==
    [][\A who \in Conns : \A e \in Events :
          Dispatched(who, ClientEvent(e)) =>
             \A c \in Conns :
                Extends(c) /\ Copies(Appended(c), e) = Matching(subscribers, c, e)]_vars

\* C2: with one subscription on a that matches E, one on b that does not and
\* no other, and the queues empty, one EVENT(E) leaves on a's queue exactly
\* one delivery of E (after the OK when a sent the EVENT) and on b's queue
\* nothing (but the OK when b sent it).
C2_FanOutIsolation ==
    [][\A who \in Conns : \A e \in Events : \A a \in Conns : \A b \in Conns \ {a} :
          ( /\ Dispatched(who, ClientEvent(e))
            /\ DOMAIN subscribers = {a, b}
            /\ Len(subscribers[a]) = 1 /\ Matching(subscribers, a, e) = 1
            /\ Len(subscribers[b]) = 1 /\ Matching(subscribers, b, e) = 0
            /\ \A c \in Conns : queue[c] = <<>> )
          => /\ Copies(queue'[a], e) = 1
             /\ Len(queue'[a]) = (IF who = a THEN 2 ELSE 1)
             /\ Len(queue'[b]) = (IF who = b THEN 1 ELSE 0)
             /\ Copies(queue'[b], e) = 0]_vars

\* C3: every EVENT(E) that decodes enqueues exactly one OK (event_id = E.id,
\* accepted, empty message) on the sender's queue, whether or not a filter
\* matches, before every copy of E of the same dispatch, and no OK elsewhere.
C3_OkFirst ==
    [][\A who \in Conns : \A e \in Events :
          Dispatched(who, ClientEvent(e)) =>
             /\ Extends(who)
             /\ Len(Appended(who)) >= 1
             /\ IsOkFor(Appended(who)[1], e)
             /\ \A i \in 2..Len(Appended(who)) : Appended(who)[i] = EncodeEvent(e)
             /\ \A c \in Conns \ {who} :
                   Extends(c) /\ \A i \in 1..Len(Appended(c)) : ~IsOkFor(Appended(c)[i], e)]_vars

\* An EVENT(E1) was the last dispatch and its sender's queue ends with the OK
\* followed by a copy of E1.
C3_Witness ==
    \E who \in Conns :
        /\ last = [who |-> who, message |-> ClientEvent(E1)]
        /\ Len(queue[who]) = 2
        /\ IsOkFor(queue[who][1], E1)
        /\ queue[who][2] = EncodeEvent(E1)

\* C6: once a connection has disconnected the Registry does not hold its key,
\* and an EVENT enqueues no copy on behalf of a disconnected connection's
\* subscriptions: the copies of one dispatch are as many as the matching
\* subscriptions of the connections still connected.
C6_DisconnectCleanup ==
    [][/\ \A c \in Conns : ~connected'[c] => c \notin DOMAIN subscribers'
       /\ \A who \in Conns : \A e \in Events :
             Dispatched(who, ClientEvent(e)) =>
                Copies(Appended(who), e) =
                   Len(SelectSeq(FlatMap(subscribers, DOMAIN subscribers),
                                 LAMBDA sub : connected[sub.client]
                                                /\ match_event(e, sub.filter)))]_vars

\* C7: CLOSE(id) on connection who leaves the entry of every other connection
\* as it was, also one holding a subscription with the same id.
C7_CloseScoping ==
    [][\A who \in Conns : \A id \in SubIds :
          Dispatched(who, Close(id)) =>
             \A c \in Conns \ {who} :
                /\ (c \in DOMAIN subscribers') = (c \in DOMAIN subscribers)
                /\ EntryOf(subscribers', c) = EntryOf(subscribers, c)]_vars

\* A's CLOSE("s1") was the last dispatch, it emptied A's entry, and B holds a
\* subscription with the id "s1".
C7_Witness ==
    /\ last = [who |-> "A", message |-> Close("s1")]
    /\ "A" \in DOMAIN subscribers /\ subscribers["A"] = <<>>
    /\ "B" \in DOMAIN subscribers
    /\ \E i \in 1..Len(subscribers["B"]) : subscribers["B"][i].id = "s1"

\* C8: a text frame that fails to decode (an EVENT with a kind other than 0
\* and 1 among them) changes neither the Registry nor any queue, and the
\* reader keeps running for the next frame.
C8_DecodeFailureKeepsReader ==
    [][\A who \in Conns : \A t \in Texts :
          (Decoded[t].r # "ok"
             /\ (FirstMessage(who, Text(t)) \/ ReaderMessage(who, Text(t))))
          => /\ subscribers' = subscribers
             /\ queue' = queue
             /\ pc'[who] = "open"
             /\ connected'[who]]_vars

\* C9: every item on every outbound queue is a server message the
\* server-message decoder accepts.
C9_QueueItemsDecode ==
    \A c \in Conns : \A i \in 1..Len(queue[c]) : DecodeServer(queue[c][i]).r = "ok"

\* seq without every subscription whose id is id, the others in their order.
RECURSIVE WithoutId(_, _)
WithoutId(seq, id) ==
    IF seq = <<>> THEN <<>>
    ELSE IF Head(seq).id = id THEN WithoutId(Tail(seq), id)
    ELSE <<Head(seq)>> \o WithoutId(Tail(seq), id)

\* C10: CLOSE(id) on connection who removes from who's entry every
\* subscription with that id, keeps the others in their order, and changes
\* nothing when who has no entry or no such subscription.
C10_CloseRemovesAll ==
    [][\A who \in Conns : \A id \in SubIds :
          Dispatched(who, Close(id)) =>
             /\ DOMAIN subscribers' = DOMAIN subscribers
             /\ who \in DOMAIN subscribers =>
                   subscribers'[who] = WithoutId(subscribers[who], id)
             /\ (who \notin DOMAIN subscribers
                   \/ \A i \in 1..Len(subscribers[who]) : subscribers[who][i].id # id)
                  => subscribers' = subscribers]_vars

\* A's CLOSE("s1") was the last dispatch and A's entry is left with its "s2"
\* subscription alone.
C10_Witness ==
    /\ last = [who |-> "A", message |-> Close("s1")]
    /\ "A" \in DOMAIN subscribers
    /\ subscribers["A"] = <<Subscriber("A", "A", "s2", FOther)>>

\* C11: REQ(id, filter) on connection who appends exactly one subscription
\* {id, filter} at the end of who's entry, creating the entry if absent; the
\* subscriptions already there, also one with the same id, stay as they were,
\* and so does every other entry.
C11_ReqAppends ==
    [][\A who \in Conns : \A id \in SubIds : \A filter \in ReqFilters :
          Dispatched(who, Req(id, filter)) =>
             LET old == EntryOf(subscribers, who)
             IN  /\ DOMAIN subscribers' = DOMAIN subscribers \cup {who}
                 /\ Len(subscribers'[who]) = Len(old) + 1
                 /\ SubSeq(subscribers'[who], 1, Len(old)) = old
                 /\ subscribers'[who][Len(old) + 1].id = id
                 /\ subscribers'[who][Len(old) + 1].filter = filter
                 /\ \A c \in DOMAIN subscribers \ {who} :
                       subscribers'[c] = subscribers[c]]_vars

\* A's entry holds two subscriptions with the id "s1" and different filters,
\* the second appended by the last dispatch.
C11_Witness ==
    /\ last = [who |-> "A", message |-> Req("s1", FOther)]
    /\ "A" \in DOMAIN subscribers
    /\ Len(subscribers["A"]) = 2
    /\ subscribers["A"][1].id = "s1" /\ subscribers["A"][1].filter = FTags
    /\ subscribers["A"][2].id = "s1" /\ subscribers["A"][2].filter = FOther

\* C12: a connection's queue is a FIFO: a step that changes it either appends
\* at its end or is the writer taking its oldest item, the others staying in
\* their order; the writer takes one item of its own queue only.
C12_WriterFifo ==
    [][\A c \in Conns :
          /\ queue'[c] # queue[c] =>
                \/ Extends(c)
                \/ queue[c] # <<>> /\ queue'[c] = Tail(queue[c])
          /\ Writer(c) =>
                /\ queue'[c] = Tail(queue[c])
                /\ \A d \in Conns \ {c} : queue'[d] = queue[d]]_vars

\* The writer has written the OK of EVENT(E1) and the copy of E1, enqueued
\* after it, is what the queue still holds.
C12_Witness ==
    \E c \in Conns :
        /\ last = [who |-> c, message |-> ClientEvent(E1)]
        /\ queue[c] = <<EncodeEvent(E1)>>

\* The subscribers of connection c among those a fan-out has evaluated.
SeenOf(who, c) == SelectSeq(op[who].seen, LAMBDA sub : sub.client = c)

\* who's fan-out loop has evaluated its last subscriber.
FanOutDone(who) ==
    pc[who] = "loop" /\ op[who].i >= Len(FlatMap(subscribers, DOMAIN subscribers))

\* C13: a fan-out that has run to its end has evaluated, of every connection,
\* either all the subscriptions the connection had when the fan-out took its
\* guard or none of them, whatever disconnects were started meanwhile.
C13_AllOrNone ==
    \A who \in Conns :
        FanOutDone(who) =>
            \A c \in Conns :
                \/ SeenOf(who, c) = <<>>
                \/ SeenOf(who, c) = EntryOf(op[who].start, c)

\* B's fan-out has evaluated both of A's subscriptions while A's disconnect
\* is waiting for the lock.
C13_Witness ==
    /\ FanOutDone("B")
    /\ Len(SeenOf("B", "A")) = 2
    /\ pc["A"] = "wait" /\ op["A"].m = Disconnect

\* C14: no deadlock. A reader in its fan-out loop holds the read guard and can
\* always take its next step (its sends never wait), and whenever some reader
\* is in the middle of a handler call, some reader can take a step; otherwise
\* every reader is idle, waiting for a frame, or has ended.
C14_NoDeadlock ==
    /\ \A who \in Conns :
          pc[who] = "loop" =>
             who \in rw /\ ENABLED (FanOutStep(who) \/ FanOutEnd(who))
    /\ (\E who \in Conns : pc[who] \in {"wait", "loop"}) =>
          \E who \in Conns :
             ENABLED (WriteLocked(who) \/ ReadLocked(who)
                        \/ FanOutStep(who) \/ FanOutEnd(who))
    /\ \A who \in Conns : pc[who] \in {"open", "wait", "loop", "closed"}

\* A is in its fan-out loop, has enqueued the OK and a copy under the read
\* guard, and B's REQ waits for the write guard.
C14_Witness ==
    /\ pc["A"] = "loop" /\ "A" \in rw
    /\ Len(queue["A"]) >= 2
    /\ pc["B"] = "wait" /\ op["B"].m.t = "Req"

\* C15: no backfill. A REQ enqueues nothing, and every step that enqueues
\* is the dispatch of an EVENT(E) by the connection whose queue grows: what it
\* appends is the OK of E and copies of E, as many as the subscriptions in the
\* Registry at that dispatch whose filter matches. A subscription registered
\* later gets no copy of E.
C15_NoBackfill ==
    [][/\ \A who \in Conns : \A req \in Reqs :
             Dispatched(who, req) => queue' = queue
       /\ \A c \in Conns :
             Len(queue'[c]) > Len(queue[c]) =>
                \E e \in Events :
                   /\ Dispatched(c, ClientEvent(e))
                   /\ Extends(c)
                   /\ \A i \in 1..Len(Appended(c)) :
                         IsOkFor(Appended(c)[i], e) \/ Appended(c)[i] = EncodeEvent(e)
                   /\ Copies(Appended(c), e) =
                         Len(SelectSeq(FlatMap(subscribers, DOMAIN subscribers),
                                       LAMBDA sub : match_event(e, sub.filter)))]_vars

\* B's EVENT(E1) was dispatched while no subscription matched (its OK is all
\* that was enqueued); A's REQ with a filter that matches E1 came last and is
\* A's only subscription, and no copy of E1 is on any queue.
C15_Witness ==
    /\ last = [who |-> "A", message |-> Req("s1", FTags)]
    /\ "A" \in DOMAIN subscribers /\ Len(subscribers["A"]) = 1
    /\ queue["A"] = <<>>
    /\ queue["B"] = <<EncodeServer(ServerOk(E1.id, TRUE, ""))>>

\* The step in which connection who's read gives a close frame, an error or
\* the end of the stream (such a step ends who's transport, which is compared
\* first).
ReadEnds(who) ==
    /\ connected[who] /\ ~connected'[who]
    /\ \/ \E how \in {"Close", "Err", "None"} : ReaderEnd(who, how)
       \/ \E how \in {"Err", "None"} : FirstReadEnd(who, how)
       \/ FirstMessage(who, CloseFrame)

\* C16: a close frame or a read failure on connection who stops who's reader
\* and leaves no entry of who in the Registry; the entry, the reader, the
\* transport of every other connection and every queue are as they were.
C16_DisconnectIsLocal ==
    [][\A who \in Conns :
          ReadEnds(who) =>
             /\ pc'[who] = "closed"
             /\ who \notin DOMAIN subscribers'
             /\ queue' = queue
             /\ \A c \in Conns \ {who} :
                   /\ (c \in DOMAIN subscribers') = (c \in DOMAIN subscribers)
                   /\ EntryOf(subscribers', c) = EntryOf(subscribers, c)
                   /\ pc'[c] = pc[c]
                   /\ connected'[c] = connected[c]]_vars

\* A, whose last dispatch was a REQ, has disconnected and has no entry; B's
\* reader runs, B's subscription is registered and B's queue holds an item.
C16_Witness ==
    /\ last = [who |-> "A", message |-> Req("s1", FTags)]
    /\ pc["A"] = "closed" /\ "A" \notin DOMAIN subscribers
    /\ pc["B"] = "open" /\ connected["B"]
    /\ "B" \in DOMAIN subscribers /\ Len(subscribers["B"]) = 1
    /\ queue["B"] # <<>>

\* The wire form the protocol documents for a client message: the tag first,
\* then the payload in its positions.
ClientWireOk(m, w) ==
    /\ w.j = "arr"
    /\ CASE m.t = "Req" ->
              /\ Len(w.a) = 3 /\ w.a[1] = JStr("REQ")
              /\ w.a[2] = JStr(m.id) /\ w.a[3].j = "obj"
         [] m.t = "Event" ->
              Len(w.a) = 2 /\ w.a[1] = JStr("EVENT") /\ w.a[2].j = "obj"
         [] OTHER ->
              Len(w.a) = 2 /\ w.a[1] = JStr("CLOSE") /\ w.a[2] = JStr(m.id)

\* The wire form the protocol documents for a server message.
ServerWireOk(m, w) ==
    /\ w.j = "arr"
    /\ CASE m.t = "Event" ->
              /\ Len(w.a) = 3 /\ w.a[1] = JStr("EVENT")
              /\ w.a[2] = JStr(m.subscribe_id) /\ w.a[3].j = "obj"
         [] m.t = "Ok" ->
              /\ Len(w.a) = 4 /\ w.a[1] = JStr("OK")
              /\ w.a[2] = JStr(m.event_id) /\ w.a[3] = JBool(m.accepted)
              /\ w.a[4] = JStr(m.message)
         [] m.t = "EOSE" ->
              Len(w.a) = 2 /\ w.a[1] = JStr("EOSE") /\ w.a[2] = JStr(m.id)
         [] m.t = "Closed" ->
              /\ Len(w.a) = 3 /\ w.a[1] = JStr("CLOSED")
              /\ w.a[2] = JStr(m.subscribe_id) /\ w.a[3] = JStr(m.message)
         [] OTHER ->
              Len(w.a) = 2 /\ w.a[1] = JStr("NOTICE") /\ w.a[2] = JStr(m.message)

\* C17: for every client message and every server message m,
\* decode(encode(m)) = m, and encode(m) is the array with the variant's tag
\* first and the payload in the documented positions.
C17_RoundTrip ==
    \A out \in c_out :
        /\ c_in.k = "client" =>
              out.back = [r |-> "ok", v |-> c_in.x] /\ ClientWireOk(c_in.x, out.wire)
        /\ c_in.k = "server" =>
              out.back = [r |-> "ok", v |-> c_in.x] /\ ServerWireOk(c_in.x, out.wire)

\* A CLOSED message with two different strings has gone through the codec
\* and come back.
C17_Witness ==
    /\ c_in = [k |-> "server", x |-> Closed("s1", "bye")]
    /\ c_out # None
    /\ \A out \in c_out : out.back.r = "ok"

\* C18: an array with a recognized tag and too few or too many elements, or
\* an element of the wrong type, fails to decode, and so does an array whose
\* first element is not a recognized tag; no message value is produced, and
\* the error kind reported for the first is not the kind reported for the
\* second.
C18_StrictDecode ==
    \A out \in c_out :
        c_in.k = "wire" =>
            /\ out.back.r = "err"
            /\ out.error # None
            /\ c_in.x \in WrongArity \cup WrongType =>
                  \A t \in UnknownTag : out.error # map_err(DecodeClient(t))

\* The keys the protocol documents for a Filter object, in their order.
DocumentedFilterKeys ==
    <<"ids", "authors", "kinds", "#e", "#p", "since", "until", "limit">>

\* C19: the object a Filter encodes to has exactly the keys of the fields
\* that are set, written in the documented order; no key has the value null,
\* and the empty filter encodes to the empty object.
C19_FilterOmitsUnset ==
    \A out \in c_out :
        c_in.k = "filter" =>
            LET f == c_in.x
                D == DOMAIN out.wire.o
            IN  /\ out.wire.j = "obj"
                /\ ("ids" \in D) = (f.ids # None)
                /\ ("authors" \in D) = (f.authors # None)
                /\ ("kinds" \in D) = (f.kinds # None)
                /\ ("#e" \in D) = (f.e_tags # None)
                /\ ("#p" \in D) = (f.p_tags # None)
                /\ ("since" \in D) = (f.since # None)
                /\ ("until" \in D) = (f.until # None)
                /\ ("limit" \in D) = (f.limit # None)
                /\ \A key \in D :
                      /\ \E i \in 1..Len(DocumentedFilterKeys) : DocumentedFilterKeys[i] = key
                      /\ out.wire.o[key] # JNull
                /\ out.keys = SelectSeq(DocumentedFilterKeys, LAMBDA key : key \in D)
                /\ f = Filter_new => D = {}

\* The filter {kinds: [1], since: 50} has been encoded: its object has the
\* two keys and no other.
C19_Witness ==
    /\ c_in = [k |-> "filter",
               x |-> [Filter_new EXCEPT !.kinds = Some(<<1>>), !.since = Some(50)]]
    /\ \E out \in c_out : DOMAIN out.wire.o = {"kinds", "since"}

\* x is one of the values listed in the field, or the field is unset.
ExactMember(field, x) ==
    field = None \/ \E listed \in field : x \in {listed[i] : i \in 1..Len(listed)}

\* The checks of the five non-tag fields that are evaluated.
NonTagChecks(e, f) ==
    /\ ExactMember(f.ids, e.id)
    /\ ExactMember(f.authors, e.pubkey)
    /\ ExactMember(f.kinds, IF e.kind = "MetaData" THEN 0 ELSE 1)
    /\ (f.since = None \/ \E since \in f.since : e.created_at > since)
    /\ (f.until = None \/ \E until \in f.until : e.created_at < until)

Quote == "\""
Backslash == "\\"

\* Display for an integer: a minus sign, then the decimal digits.
RECURSIVE Decimal(_)
Decimal(n) ==
    IF n < 0 THEN <<"-">> \o Decimal(0 - n)
    ELSE IF n < 10 THEN <<<<"0", "1", "2", "3", "4", "5", "6", "7", "8", "9">>[n + 1]>>
    ELSE Decimal(n \div 10) \o Decimal(n % 10)

\* serde_json::to_string of a String: quoted, with quotes and backslashes
\* escaped.
RECURSIVE Escaped(_)
Escaped(str) ==
    IF str = <<>> THEN <<>>
    ELSE (IF Head(str) \in {Quote, Backslash} THEN <<Backslash, Head(str)>>
                                              ELSE <<Head(str)>>)
           \o Escaped(Tail(str))

to_string_str(str) == <<Quote>> \o Escaped(str) \o <<Quote>>

\* serde_json::to_string of a Vec<String>: the elements between brackets,
\* separated by commas.
RECURSIVE JoinStrs(_)
JoinStrs(v) ==
    IF v = <<>> THEN <<>>
    ELSE to_string_str(Head(v)) \o (IF Tail(v) = <<>> THEN <<>> ELSE <<",">>)
           \o JoinStrs(Tail(v))

to_string_vec(v) == <<"[">> \o JoinStrs(v) \o <<"]">>

\* serde_json::to_string(&tags) of a Vec<Vec<String>>.
RECURSIVE JoinVecs(_)
JoinVecs(tags) ==
    IF tags = <<>> THEN <<>>
    ELSE to_string_vec(Head(tags)) \o (IF Tail(tags) = <<>> THEN <<>> ELSE <<",">>)
           \o JoinVecs(Tail(tags))

to_string_tags(tags) == <<"[">> \o JoinVecs(tags) \o <<"]">>

\* format!(r#"[0,"{}",{},{},{},"{}"]"#, pubkey, created_at, u16::from(kind),
\* to_string(&tags), content): pubkey and content are written as they are.
serialized_event(pubkey, kind, tags, content, created_at) ==
    <<"[", "0", ",", Quote>> \o pubkey \o <<Quote, ",">>
      \o Decimal(created_at) \o <<",">>
      \o Decimal(u16_from_kind(kind)) \o <<",">>
      \o to_string_tags(tags) \o <<",", Quote>>
      \o content \o <<Quote, "]">>

\* hex::encode(Sha256(text)): the digest is modelled as free of collisions,
\* so it is the record of what was hashed.
Sha256Hex(text) == [sha256 |-> text]

\* UnsignedEvent::new.
UnsignedEvent_new(pubkey, kind, tags, content, created_at) ==
    [id |-> Sha256Hex(serialized_event(pubkey, kind, tags, content, created_at)),
     pubkey |-> pubkey, created_at |-> created_at, kind |-> kind, tags |-> tags,
     content |-> content]

\* The text between a pubkey and a content when created_at = 1, the kind is
\* TextNote and there are no tags: a string of quotes, commas and brackets.
Splice == <<Quote, ",", "1", ",", "1", ",", "[", "]", ",", Quote>>

\* The strings given as pubkey and as content.
IdStrings == {<<>>, <<"a">>, <<"b">>, Splice}

\* The arguments of UnsignedEvent::new.
IdArgs ==
    [pubkey : IdStrings, kind : EventKinds,
     tags : {<<>>, << <<<<"e">>, <<"x">>>> >>, << <<<<"e">>, <<Quote>>>> >>},
     content : IdStrings, created_at : {1, 11}]

NewOf(a) == UnsignedEvent_new(a.pubkey, a.kind, a.tags, a.content, a.created_at)

\* The sizes in bytes of a SHA-256 digest, of the Message that is signed and
\* of a secret key.
Sha256Size == 32
MessageSize == 32
SecretKeySize == 32

\* A secret key string is described by what hex::decode and
\* SecretKey::parse_slice look at: whether it is hexadecimal text, how many
\* bytes it decodes to, and whether the number is zero, a scalar of the
\* curve, or not below the order of the curve.
SecKeys ==
    {[hex |-> FALSE, len |-> SecretKeySize, scalar |-> "k1"],
     [hex |-> TRUE, len |-> SecretKeySize - 1, scalar |-> "k1"],
     [hex |-> TRUE, len |-> SecretKeySize, scalar |-> "zero"],
     [hex |-> TRUE, len |-> SecretKeySize, scalar |-> "overflow"],
     [hex |-> TRUE, len |-> SecretKeySize, scalar |-> "k1"],
     [hex |-> TRUE, len |-> SecretKeySize, scalar |-> "k2"]}

\* hex::decode(seckey).
hex_decode(seckey) ==
    IF seckey.hex THEN [r |-> "ok", v |-> [len |-> seckey.len, scalar |-> seckey.scalar]]
                  ELSE [r |-> "err"]

\* SecretKey::parse_slice: the length, then the range of the scalar.
SecretKey_parse_slice(bytes) ==
    IF bytes.len # SecretKeySize \/ bytes.scalar \in {"zero", "overflow"}
      THEN [r |-> "err"]
      ELSE [r |-> "ok", v |-> bytes.scalar]

\* Message::parse_slice(&hex::decode(&self.id).unwrap()): the id is the hex
\* text of a digest, which decodes to the bytes of the digest.
Message_parse_slice(id) ==
    IF Sha256Size # MessageSize THEN [r |-> "err"] ELSE [r |-> "ok", v |-> id]

\* UnsignedEvent::sign: each unwrap() of an Err panics; the signature is
\* modelled by the record of what was signed and with which key.
sign(self, seckey) ==
    IF hex_decode(seckey).r # "ok" THEN [r |-> "panic"]
    ELSE IF SecretKey_parse_slice(hex_decode(seckey).v).r # "ok" THEN [r |-> "panic"]
    ELSE IF Message_parse_slice(self.id).r # "ok" THEN [r |-> "panic"]
    ELSE [r |-> "ok",
          v |-> [id |-> self.id, pubkey |-> self.pubkey, created_at |-> self.created_at,
                 kind |-> self.kind, tags |-> self.tags, content |-> self.content,
                 sig |-> [message |-> Message_parse_slice(self.id).v,
                          key |-> SecretKey_parse_slice(hex_decode(seckey).v).v]]]

\* What is handed to UnsignedEvent: two argument lists for new(), or one
\* argument list and a secret key for new() and then sign().
EventInputs ==
    {[k |-> "ids", x |-> [first |-> a, second |-> b]] : a \in IdArgs, b \in IdArgs}
      \cup {[k |-> "sign", x |-> [args |-> a, seckey |-> key]] :
               a \in IdArgs, key \in SecKeys}

EventInit ==
    /\ subscribers = [k \in {} |-> <<>>]
    /\ queue = [c \in Conns |-> <<>>]
    /\ pc = [c \in Conns |-> "first"]
    /\ connected = [c \in Conns |-> TRUE]
    /\ last = NoMessage
    /\ m_in = MatchIdle
    /\ m_out = None
    /\ rw = {}
    /\ lockq = <<>>
    /\ op = [c \in Conns |-> NoOp]
    /\ c_in \in EventInputs
    /\ c_out = None

\* Two calls of UnsignedEvent::new; the ids they computed.
ComputeIds ==
    /\ c_in.k = "ids" /\ c_out = None
    /\ c_out' = Some([first |-> NewOf(c_in.x.first).id, second |-> NewOf(c_in.x.second).id])
    /\ UNCHANGED <<subscribers, queue, pc, connected, last, m_in, m_out, rw, lockq, op, c_in>>

\* UnsignedEvent::new(..).sign(seckey).
Sign ==
    /\ c_in.k = "sign" /\ c_out = None
    /\ c_out' = Some(sign(NewOf(c_in.x.args), c_in.x.seckey))
    /\ UNCHANGED <<subscribers, queue, pc, connected, last, m_in, m_out, rw, lockq, op, c_in>>

EventNext == ComputeIds \/ Sign

SpecEvent == EventInit /\ [][EventNext]_vars

\* C21: computeId is a function of (pubkey, created_at, kind, tags, content)
\* and what it hashes is injective: two calls give the same id exactly when
\* their arguments are the same, also for a pubkey or a content with quotes,
\* commas or brackets.
C21_IdInjective ==
    \A out \in c_out :
        c_in.k = "ids" => ((out.first = out.second) = (c_in.x.first = c_in.x.second))

\* A secret key that is hexadecimal text of a scalar of the curve.
ValidKey(key) == key.hex /\ key.len = 32 /\ key.scalar \notin {"zero", "overflow"}

\* C22: sign returns the error InvalidKey when the secret key is not a valid
\* scalar and InvalidDigest when the id is not 32 bytes; a signed Event is
\* produced only from a valid key and a 32-byte id.
C22_SignErrors ==
    \A out \in c_out :
        c_in.k = "sign" =>
            /\ ~ValidKey(c_in.x.seckey) => out = [r |-> "err", e |-> "InvalidKey"]
            /\ (ValidKey(c_in.x.seckey) /\ Sha256Size # 32)
                 => out = [r |-> "err", e |-> "InvalidDigest"]
            /\ out.r = "ok" => ValidKey(c_in.x.seckey)

\* ---------------------------------------------------- the writer's end
\* A sender of who's channel exists: message_tx, which handle_socket and then
\* the reader task own until they return or unwind, or a clone kept in a
\* Subscriber of the Registry.
SenderHeld(who) ==
    \/ pc[who] \in {"first", "open"}
    \/ \E k \in DOMAIN subscribers :
          \E i \in 1..Len(subscribers[k]) : subscribers[k][i].sender = who

\* message_rx.recv() gives None, which ends the writer's while-let loop: the
\* channel is empty and every sender of it is dropped.
recv_None(who) == queue[who] = <<>> /\ ~SenderHeld(who)

\* The frames of the peers of the relay whose shutdown is followed: a REQ, an
\* EVENT that the REQ's filter matches, and the close frame.
ShutdownMessages ==
    {Text(EncodeClient(Req("s1", FTags))), Text(EncodeClient(ClientEvent(E1))), CloseFrame}

ShutdownNext ==
    \E who \in Conns :
        \/ \E msg \in ShutdownMessages : FirstMessage(who, msg)
        \/ \E msg \in ShutdownMessages : ReaderMessage(who, msg)
        \/ \E how \in {"Close", "Err", "None"} : ReaderEnd(who, how)
        \/ \E how \in {"Err", "None"} : FirstReadEnd(who, how)
        \/ Writer(who)

\* The relay with its writer tasks scheduled fairly: a writer with an item to
\* take is not held back for ever.
SpecFair == Init /\ [][ShutdownNext]_vars /\ \A who \in Conns : WF_vars(Writer(who))

\* C23: a close frame or a read error on an open connection stops its reader
\* and removes its entry; from then on no frame of the connection is
\* processed, its queue loses items only one at a time from the front (none is
\* dropped), and the writer eventually has written them all and ends.
C23_Shutdown ==
    /\ [][\A who \in Conns :
             /\ (\E how \in {"Close", "Err", "None"} : ReaderEnd(who, how))
                  => (pc'[who] = "closed" /\ who \notin DOMAIN subscribers')
             /\ pc[who] = "closed"
                  => /\ pc'[who] = "closed"
                     /\ last' = last \/ last'.who # who
                     /\ queue'[who] = queue[who]
                          \/ (queue[who] # <<>> /\ queue'[who] = Tail(queue[who]))]_vars
    /\ \A who \in Conns : (pc[who] = "closed") ~> recv_None(who)

\* A's reader has ended while A's queue still holds two items.
C23_Witness == pc["A"] = "closed" /\ Len(queue["A"]) = 2

\* C24: the Registry changes only in the step of a REQ, a CLOSE or a
\* disconnect that holds the lock alone, no read guard being held before or
\* after; a fan-out holds a read guard from before its first subscription to
\* after its last, so the Registry it iterates is at every iteration the one it
\* found when it took the guard, and what it has evaluated is the beginning of
\* that one Registry. (Two fan-outs iterating at once is the witness.)
C24_LockDiscipline ==
    /\ [](\A who \in Conns :
            pc[who] = "loop" =>
               /\ who \in rw
               /\ op[who].start = subscribers
               /\ op[who].seen =
                    SubSeq(FlatMap(op[who].start, DOMAIN op[who].start), 1, op[who].i))
    /\ [][subscribers' # subscribers =>
            /\ rw = {} /\ rw' = {}
            /\ \A who \in Conns : pc[who] # "loop" /\ pc'[who] # "loop"
            /\ \E who \in Conns :
                  /\ pc[who] = "wait" /\ Head(lockq) = who
                  /\ op[who].m.t \in {"Req", "Close", "Disconnect"}
                  /\ pc'[who] \in {"open", "closed"}]_vars

\* A and B both hold a read guard and are in their fan-out loops, A past its
\* first subscription, while the Registry holds two subscriptions.
C24_Witness ==
    /\ rw = {"A", "B"}
    /\ pc["A"] = "loop" /\ pc["B"] = "loop"
    /\ op["A"].i = 1 /\ op["B"].i = 0
    /\ TotalSubs = 2

\* The number of subscriptions of connection c in reg with the id `id` whose
\* filter matches e.
MatchingWithId(reg, c, id, e) ==
    Len(SelectSeq(EntryOf(reg, c), LAMBDA sub : sub.id = id /\ match_event(e, sub.filter)))

\* The copies of e a step appended, over all the queues of the connections S.
RECURSIVE CopiesAppended(_, _)
CopiesAppended(S, e) ==
    IF S = {} THEN 0
    ELSE LET c == CHOOSE x \in S : TRUE
         IN  Copies(Appended(c), e) + CopiesAppended(S \ {c}, e)

\* C25: one EVENT(E) dispatch enqueues as many copies of E as the whole
\* Registry has subscriptions whose filter matches E; a connection receives a
\* copy for each of its matching subscriptions of one id (two when the id was
\* registered twice), and a connection that has no matching subscription left
\* (after its CLOSE) receives none.
C25_Multiplicity ==
    [][\A who \in Conns : \A e \in Events :
          Dispatched(who, ClientEvent(e)) =>
             /\ CopiesAppended(Conns, e) =
                   Len(SelectSeq(FlatMap(subscribers, DOMAIN subscribers),
                                 LAMBDA sub : match_event(e, sub.filter)))
             /\ \A c \in Conns :
                   /\ \A id \in SubIds :
                         Copies(Appended(c), e) >= MatchingWithId(subscribers, c, id, e)
                   /\ Matching(subscribers, c, e) = 0 => Copies(Appended(c), e) = 0]_vars

\* -------------------------------------------- REQ and CLOSE on their own
\* The relay with peers that send REQ and CLOSE frames only.
ReqCloseTexts == ReqTexts \cup {EncodeClient(Close(id)) : id \in SubIds}

ReqCloseNext ==
    \E who \in Conns : \E t \in ReqCloseTexts :
        \/ FirstMessage(who, Text(t))
        \/ ReaderMessage(who, Text(t))

SpecReqClose == Init /\ [][ReqCloseNext]_vars

\* C26: REQ and CLOSE enqueue nothing: after any sequence of REQ and CLOSE
\* dispatches alone, on any connections, every outbound queue is empty.
C26_ReqCloseSilent == \A c \in Conns : queue[c] = <<>>

\* A has sent REQ s1 and then CLOSE s1 (its entry is there, with no
\* subscription left), B has a subscription, and the queues are empty.
C26_Witness ==
    /\ last = [who |-> "A", message |-> Close("s1")]
    /\ "A" \in DOMAIN subscribers /\ subscribers["A"] = <<>>
    /\ "B" \in DOMAIN subscribers /\ Len(subscribers["B"]) = 2
    /\ queue = [c \in Conns |-> <<>>]

\* item is the event e, the same in its seven fields.
IsEvent(item, e) == DecodeEvent(item) = [r |-> "ok", v |-> e]

\* C27: the queues start empty, and every step that enqueues is the dispatch
\* of an EVENT(E) by some connection and enqueues only the OK of E (accepted,
\* empty message) and E itself, the same in its seven fields; so every item on
\* every queue is such an OK or an event submitted earlier: no NOTICE, CLOSED,
\* EOSE or refusing OK, and no event that was altered or never submitted.
C27_OnlyOkAndSubmitted ==
    [][\A c \in Conns :
          Len(queue'[c]) > Len(queue[c]) =>
             \E who \in Conns : \E e \in Events :
                /\ Dispatched(who, ClientEvent(e))
                /\ Extends(c)
                /\ \A i \in 1..Len(Appended(c)) :
                      IsOkFor(Appended(c)[i], e) \/ IsEvent(Appended(c)[i], e)]_vars

\* A queue holds the OK of E1 and then E1 itself.
C27_Witness ==
    \E c \in Conns :
        /\ Len(queue[c]) = 2
        /\ IsOkFor(queue[c][1], E1)
        /\ IsEvent(queue[c][2], E1)

\* C28: the Registry is empty until a connection is past its first message;
\* every key is a connection, and every subscription stored under key k has k
\* as its client, holds the sender of k's own queue, and has the id and the
\* filter of a REQ: none is stored under, or moved to, another key.
C28_Ownership ==
    /\ (\A c \in Conns : pc[c] = "first") => DOMAIN subscribers = {}
    /\ \A k \in DOMAIN subscribers :
          /\ k \in Conns /\ pc[k] # "first"
          /\ \A i \in 1..Len(subscribers[k]) :
                /\ subscribers[k][i].client = k
                /\ subscribers[k][i].sender = k
                /\ \E req \in Reqs :
                      /\ subscribers[k][i].id = req.id
                      /\ subscribers[k][i].filter = req.filter

\* A and B each have one subscription, A's with id s1 and B's with id s2.
C28_Witness ==
    /\ DOMAIN subscribers = {"A", "B"}
    /\ Len(subscribers["A"]) = 1 /\ subscribers["A"][1].id = "s1"
    /\ Len(subscribers["B"]) = 1 /\ subscribers["B"][1].id = "s2"

\* C29: an EVENT dispatch leaves the Registry as it was, whether or not a
\* filter matched: a step after which the keys, or the subscriptions under a
\* key or their order, are not the same is never the dispatch of an EVENT.
C29_EventKeepsRegistry ==
    [][(\/ DOMAIN subscribers' # DOMAIN subscribers
        \/ \E k \in DOMAIN subscribers : subscribers'[k] # subscribers[k])
          => \A who \in Conns : \A e \in Events : ~Dispatched(who, ClientEvent(e))]_vars

\* B's EVENT(E1) was dispatched and enqueued its OK and one copy; A has a
\* subscription that matches E1 and one that does not.
C29_Witness ==
    /\ last = [who |-> "B", message |-> ClientEvent(E1)]
    /\ Len(queue["B"]) = 2
    /\ "A" \in DOMAIN subscribers /\ Len(subscribers["A"]) = 2
    /\ Matching(subscribers, "A", E1) = 1
====
